---- MODULE Spec2Model ----
(***************************************************************************)
(* A model of run_benchmark (src/benchmark.ipynb, the notebook's code      *)
(* cell, lines 42-104).  run_benchmark is one coroutine; it is suspended   *)
(* at each await, so there is one action per awaited call.  The awaited    *)
(* collaborators (chunker, vector store, question generator, LLM) are      *)
(* stubs in the notebook; their return values are drawn from small sets,   *)
(* and each awaited call may also raise.  run_benchmark holds no           *)
(* try/except, so an exception raised by an awaited call leaves it.        *)
(*                                                                         *)
(* When run_benchmark returns or is left by an exception its frame is      *)
(* gone: its locals are unbound again (only the returned table is kept).   *)
(*                                                                         *)
(* Scores are floats in the code.  Here a score is an integer number of    *)
(* hundredths (85 is 0.85) and a mean is the exact reduced fraction        *)
(* num/den; floating-point rounding is not modelled.                       *)
(*                                                                         *)
(* Spec runs run_benchmark on every list of methods and every list of      *)
(* questions within the bounds, with the notebook's grader, which answers  *)
(* 0.85.  SpecGraded runs it on lists without repeats, with a grader that  *)
(* answers 0.2, 0.5, 0.7 or 0.9.                                           *)
(***************************************************************************)
EXTENDS Integers, Sequences, FiniteSets, TLC

VARIABLES
    chunking_methods,  \* argument: List[ChunkingMethod]
    vector_db,         \* argument: VectorDB
    pc,                \* the await (or statement) run_benchmark is at
    mi,                \* position in chunking_methods of the running for loop
    qi,                \* position in questions of the inner for loop
    chunks,            \* local `chunks`
    store,             \* contents of the vector store, per VectorDB value
    questions,         \* local `questions`
    relevant_chunks,   \* local `relevant_chunks`
    answer,            \* local `answer`
    method_scores,     \* local `method_scores`
    results,           \* local `results` (dict: method.value -> float)
    exc,               \* the exception that left run_benchmark, if any
    trace              \* history: the calls completed so far, in order

vars == << chunking_methods, vector_db, pc, mi, qi, chunks, store, questions,
           relevant_chunks, answer, method_scores, results, exc, trace >>

----------------------------------------------------------------------------
(* Bounds of the model. *)

MaxMethods == 2
MaxQuestions == 3
ChunksPerMethod == 1

----------------------------------------------------------------------------
(* Types of the notebook. *)

ChunkingMethod == {"unstructured", "ai21", "custom"}

VectorDB == {"pinecone", "astra"}

\* Texts generate_questions may return (a list of them, repeats allowed).
QuestionTexts == {"Question 1?", "Question 2?"}

\* Values evaluate_answer may return, in hundredths: the one the notebook's
\* stub returns, and those of a grader that answers by degree.
StubScores == {85}

GradedScores == {20, 50, 70, 90}

\* What an awaited call may raise: a transient and a permanent failure.
FailureKinds == {"TimeoutError", "PermissionError"}

top_k == 3

NoException == [at |-> "none", kind |-> "none", i |-> 0, j |-> 0]

SeqsUpTo(S, n) == UNION {[1..k -> S] : k \in 0..n}

QuestionLists == SeqsUpTo(QuestionTexts, MaxQuestions)

MethodLists == SeqsUpTo(ChunkingMethod, MaxMethods)

\* The lists of SpecGraded: the first n members of the enumeration, in its
\* order, and n numbered questions as the stub of generate_questions
\* returns them.
Enumeration == << "unstructured", "ai21", "custom" >>

MethodPrefixes ==
    {SubSeq(Enumeration, 1, n) : n \in 0..MaxMethods}

NumberedQuestions ==
    {[k \in 1..n |-> "Question " \o ToString(k) \o "?"] : n \in 0..MaxQuestions}

EvalSteps == {"retrieve_relevant_chunks", "generate_answer", "evaluate_answer"}

AwaitSteps == {"chunk_text", "save_chunks_to_vector_db", "generate_questions"}
                \cup EvalSteps

Ev(op, i, j, arg) == [op |-> op, i |-> i, j |-> j, arg |-> arg]

----------------------------------------------------------------------------
(* Pure helpers. *)

RECURSIVE SumSeq(_)
SumSeq(s) == IF s = << >> THEN 0 ELSE Head(s) + SumSeq(Tail(s))

RECURSIVE GCD(_, _)
GCD(a, b) == IF b = 0 THEN a ELSE GCD(b, a % b)

\* The number n/d as a reduced fraction (d > 0).
Fraction(n, d) == LET g == GCD(n, d) IN [num |-> n \div g, den |-> d \div g]

\* chunk_text: the chunks of one method; each carries the method that made it.
ChunkText(method) == {[owner |-> method, pos |-> p] : p \in 1..ChunksPerMethod}

\* save_chunks_to_vector_db(chunks, db): the chunks go into the collection
\* named by db alone.
Upsert(st, db, cs) == [st EXCEPT ![db] = @ \cup cs]

\* retrieve_relevant_chunks(question, db, top_k): up to top_k chunks of the
\* collection named by db alone.
Query(st, db) ==
    IF Cardinality(st[db]) <= top_k THEN st[db]
    ELSE CHOOSE S \in SUBSET st[db] : Cardinality(S) = top_k

\* Variant of Mean: the share of the scores at or above 0.5.
MeanByThreshold(scores) ==
    Fraction(Cardinality({k \in DOMAIN scores : scores[k] >= 50}), Len(scores))

\* sum(method_scores) / len(method_scores), for a non-empty list.
Mean(scores) == Fraction(SumSeq(scores), 100 * Len(scores))

\* Variant of LoopQuestions: later methods are not asked the first question.
LoopQuestionsSliced(qs, i) == IF i > 1 /\ Len(qs) > 0 THEN Tail(qs) ELSE qs

\* `for question in questions`: the list the inner loop walks, where qs is
\* `questions` and i the position of the method being evaluated.
LoopQuestions(qs, i) == qs

\* Variant of LoopOneNext: the first loop ends after its first iteration.
LoopOneExitsEarly(i) ==
    IF i < 1 /\ i < Len(chunking_methods) THEN "chunk_text"
    ELSE "generate_questions"

\* Line 86, after i iterations of the first loop: the next method's
\* chunk_text, or on to generate_questions.
LoopOneNext(i) ==
    IF i < Len(chunking_methods) THEN "chunk_text" ELSE "generate_questions"

\* Variant of InnerNext: the inner loop stops one question short.
InnerSkipsLast(qs, j) ==
    IF j + 1 < Len(qs) THEN "retrieve_relevant_chunks" ELSE "aggregate"

\* Line 96, after j iterations of the inner loop over the list qs: the next
\* question's retrieval, or on to line 102.
InnerNext(qs, j) ==
    IF j < Len(qs) THEN "retrieve_relevant_chunks" ELSE "aggregate"

\* Variant of LoopTwoNext: `return results` inside the loop's body.
LoopTwoReturnsEarly(i) ==
    IF i < 1 /\ i < Len(chunking_methods) THEN "inner" ELSE "return"

\* Line 94, after i iterations of the second loop: the next method's inner
\* loop, or on to `return results`.
LoopTwoNext(i) ==
    IF i < Len(chunking_methods) THEN "inner" ELSE "return"

----------------------------------------------------------------------------
(* The state machine. *)

\* The call run_benchmark(text, chunking_methods, vector_db), not yet begun.
Called(methods) ==
    /\ chunking_methods \in methods
    /\ vector_db \in VectorDB
    /\ pc = "call"
    /\ mi = 0
    /\ qi = 0
    /\ chunks = {}
    /\ store = [db \in VectorDB |-> {}]
    /\ questions = << >>
    /\ relevant_chunks = {}
    /\ answer = "none"
    /\ method_scores = << >>
    /\ results = << >>
    /\ exc = NoException
    /\ trace = << >>

Init == Called(MethodLists)

InitGraded == Called(MethodPrefixes)

\* The loop variables and the locals of lines 87-100 are unbound again.
FrameDropped ==
    /\ mi' = 0
    /\ qi' = 0
    /\ chunks' = {}
    /\ questions' = << >>
    /\ relevant_chunks' = {}
    /\ answer' = "none"
    /\ method_scores' = << >>

\* Lines 82-86: results = {} and the first loop is entered.
Call ==
    /\ pc = "call"
    /\ results' = << >>
    /\ mi' = 1
    /\ pc' = LoopOneNext(0)
    /\ UNCHANGED << chunking_methods, vector_db, qi, chunks, store, questions,
                    relevant_chunks, answer, method_scores, exc, trace >>

\* Line 87: chunks = await chunk_text(text, method)
ChunkTextStep ==
    /\ pc = "chunk_text"
    /\ chunks' = ChunkText(chunking_methods[mi])
    /\ pc' = "save_chunks_to_vector_db"
    /\ trace' = Append(trace, Ev("chunk_text", mi, 0, chunking_methods[mi]))
    /\ UNCHANGED << chunking_methods, vector_db, mi, qi, store, questions,
                    relevant_chunks, answer, method_scores, results, exc >>

\* Line 88: await save_chunks_to_vector_db(chunks, vector_db), then line 86.
SaveChunksStep ==
    /\ pc = "save_chunks_to_vector_db"
    /\ store' = Upsert(store, vector_db, chunks)
    /\ trace' = Append(trace,
                  Ev("save_chunks_to_vector_db", mi, 0, chunking_methods[mi]))
    /\ pc' = LoopOneNext(mi)
    /\ mi' = mi + 1
    /\ UNCHANGED << chunking_methods, vector_db, qi, chunks, questions,
                    relevant_chunks, answer, method_scores, results, exc >>

\* Entering the body of the second loop for the method at position i
\* (line 95: method_scores = [], line 96: the inner loop's head), where qs
\* is `questions`; or leaving the loop.
EnterMethod(i, next, qs) ==
    IF next = "inner"
    THEN /\ mi' = i
         /\ method_scores' = << >>
         /\ qi' = 1
         /\ pc' = InnerNext(LoopQuestions(qs, i), 0)
    ELSE /\ pc' = next
         /\ UNCHANGED << mi, qi, method_scores >>

\* Line 91: questions = await generate_questions(text, num_questions=10),
\* then line 94.  lists: the lists generate_questions may return.
GenerateQuestions(lists) ==
    /\ pc = "generate_questions"
    /\ \E qs \in lists :
         /\ questions' = qs
         /\ trace' = Append(trace, Ev("generate_questions", 0, 0, qs))
         /\ EnterMethod(1, LoopTwoNext(0), qs)
    /\ UNCHANGED << chunking_methods, vector_db, chunks, store,
                    relevant_chunks, answer, results, exc >>

GenerateQuestionsStep == GenerateQuestions(QuestionLists)

GenerateNumberedStep == GenerateQuestions(NumberedQuestions)

\* Line 97: relevant_chunks = await retrieve_relevant_chunks(question, vector_db)
RetrieveStep ==
    /\ pc = "retrieve_relevant_chunks"
    /\ relevant_chunks' = Query(store, vector_db)
    /\ pc' = "generate_answer"
    /\ trace' = Append(trace, Ev("retrieve_relevant_chunks", mi, qi,
                                 LoopQuestions(questions, mi)[qi]))
    /\ UNCHANGED << chunking_methods, vector_db, mi, qi, chunks, store,
                    questions, answer, method_scores, results, exc >>

\* Line 98: answer = await generate_answer(question, relevant_chunks)
GenerateAnswerStep ==
    /\ pc = "generate_answer"
    /\ answer' = [question |-> LoopQuestions(questions, mi)[qi],
                  context |-> relevant_chunks]
    /\ pc' = "evaluate_answer"
    /\ trace' = Append(trace, Ev("generate_answer", mi, qi,
                                 LoopQuestions(questions, mi)[qi]))
    /\ UNCHANGED << chunking_methods, vector_db, mi, qi, chunks, store,
                    questions, relevant_chunks, method_scores, results, exc >>

\* Lines 99-100: score = await evaluate_answer(answer, "correct_answer");
\* method_scores.append(score); then line 96.  values: the scores
\* evaluate_answer may return.
EvaluateAnswer(values) ==
    /\ pc = "evaluate_answer"
    /\ \E score \in values : method_scores' = Append(method_scores, score)
    /\ trace' = Append(trace, Ev("evaluate_answer", mi, qi,
                                 LoopQuestions(questions, mi)[qi]))
    /\ pc' = InnerNext(LoopQuestions(questions, mi), qi)
    /\ qi' = IF InnerNext(LoopQuestions(questions, mi), qi) = "aggregate"
             THEN qi ELSE qi + 1
    /\ UNCHANGED << chunking_methods, vector_db, mi, chunks, store, questions,
                    relevant_chunks, answer, results, exc >>

EvaluateAnswerStep == EvaluateAnswer(StubScores)

EvaluateGradedStep == EvaluateAnswer(GradedScores)

\* Line 102: results[method.value] = sum(method_scores) / len(method_scores),
\* then line 94.
AggregateStep ==
    /\ pc = "aggregate"
    /\ Len(method_scores) > 0
    /\ LET m == chunking_methods[mi] IN
         results' = [x \in DOMAIN results \cup {m} |->
                        IF x = m THEN Mean(method_scores) ELSE results[x]]
    /\ trace' = Append(trace, Ev("aggregate", mi, 0, chunking_methods[mi]))
    /\ EnterMethod(mi + 1, LoopTwoNext(mi), questions)
    /\ UNCHANGED << chunking_methods, vector_db, chunks, store, questions,
                    relevant_chunks, answer, exc >>

\* Line 102 with len(method_scores) = 0: the division raises, and nothing
\* of run_benchmark catches it.
AggregateRaises ==
    /\ pc = "aggregate"
    /\ Len(method_scores) = 0
    /\ pc' = "raised"
    /\ exc' = [at |-> "aggregate", kind |-> "ZeroDivisionError",
               i |-> mi, j |-> 0]
    /\ results' = << >>
    /\ FrameDropped
    /\ UNCHANGED << chunking_methods, vector_db, store, trace >>

\* Line 104: return results
ReturnStep ==
    /\ pc = "return"
    /\ pc' = "returned"
    /\ trace' = Append(trace, Ev("return", 0, 0, ""))
    /\ FrameDropped
    /\ UNCHANGED << chunking_methods, vector_db, store, results, exc >>

\* An awaited call raises.  No statement of run_benchmark catches it: the
\* exception leaves run_benchmark and nothing is returned.  The exception
\* is recorded with the call that raised it and the method and question
\* positions the call was made for.
AwaitRaises ==
    /\ pc \in AwaitSteps
    /\ \E kind \in FailureKinds :
         exc' = [at |-> pc, kind |-> kind,
                 i |-> IF pc = "generate_questions" THEN 0 ELSE mi,
                 j |-> IF pc \in EvalSteps THEN qi ELSE 0]
    /\ pc' = "raised"
    /\ results' = << >>
    /\ FrameDropped
    /\ UNCHANGED << chunking_methods, vector_db, store, trace >>

Next ==
    \/ Call
    \/ ChunkTextStep
    \/ SaveChunksStep
    \/ GenerateQuestionsStep
    \/ RetrieveStep
    \/ GenerateAnswerStep
    \/ EvaluateAnswerStep
    \/ AggregateStep
    \/ AggregateRaises
    \/ ReturnStep
    \/ AwaitRaises

Spec == Init /\ [][Next]_vars

NextGraded ==
    \/ Call
    \/ ChunkTextStep
    \/ SaveChunksStep
    \/ GenerateNumberedStep
    \/ RetrieveStep
    \/ GenerateAnswerStep
    \/ EvaluateGradedStep
    \/ AggregateStep
    \/ AggregateRaises
    \/ ReturnStep
    \/ AwaitRaises

SpecGraded == InitGraded /\ [][NextGraded]_vars

----------------------------------------------------------------------------
(* Reading the history. *)

\* The places of the history where call op was completed.
OpsAt(op) == {k \in DOMAIN trace : trace[k].op = op}

\* The places where step op of the evaluation of (method position i,
\* question position j) was completed.
StepsAt(op, i, j) ==
    {k \in DOMAIN trace : trace[k].op = op /\ trace[k].i = i /\ trace[k].j = j}

IsEval(e) == e.op \in EvalSteps

\* The list generate_questions returned (the empty list before it did).
Generated ==
    IF OpsAt("generate_questions") = {} THEN << >>
    ELSE trace[CHOOSE k \in OpsAt("generate_questions") : TRUE].arg

\* The questions passed to step op while the method at position i was
\* evaluated, in the order they were passed.
QuestionsAsked(op, i) ==
    LET evs == SelectSeq(trace, LAMBDA e : e.op = op /\ e.i = i)
    IN  [k \in DOMAIN evs |-> evs[k].arg]

Range(s) == {s[k] : k \in DOMAIN s}

Distinct(s) == \A a, b \in DOMAIN s : a # b => s[a] # s[b]

CountAtLeast(scores, threshold) ==
    Cardinality({k \in DOMAIN scores : scores[k] >= threshold})

\* run_benchmark is inside its second loop or about to return.
Running == pc \in EvalSteps \cup {"aggregate", "return"}

----------------------------------------------------------------------------
(* C1 *)

\* C1: generate_questions completes at most once, every evaluation step
\* comes after it and is passed the question at its position of that one
\* list, which is the list the local `questions` holds from then on, and a
\* method whose aggregate was computed has been asked exactly the generated
\* list, in its order, at each of the three evaluation steps.
C1_OneQuestionSet ==
    LET gen == OpsAt("generate_questions")
        qs == Generated
    IN  /\ Cardinality(gen) <= 1
        /\ (Running => questions = qs)
        /\ \A k \in DOMAIN trace :
             IsEval(trace[k]) =>
               /\ \E g \in gen : g < k
               /\ trace[k].j \in DOMAIN qs
               /\ trace[k].arg = qs[trace[k].j]
        /\ \A k \in OpsAt("aggregate") :
             \A op \in EvalSteps : QuestionsAsked(op, trace[k].i) = qs

\* Two methods were evaluated on a list of two different questions.
C1_Witness ==
    /\ pc = "returned"
    /\ Len(chunking_methods) = 2
    /\ Len(Generated) >= 2
    /\ Generated[1] # Generated[2]
    /\ QuestionsAsked("evaluate_answer", 2) = Generated

----------------------------------------------------------------------------
(* C2 *)

\* C2: while the method at position mi is being evaluated, the collection
\* its retrievals read holds only chunks made by that method, and what a
\* retrieval returned holds only such chunks.
C2_IndexIsolation ==
    pc \in EvalSteps =>
      /\ \A c \in store[vector_db] : c.owner = chunking_methods[mi]
      /\ (pc # "retrieve_relevant_chunks" =>
            \A c \in relevant_chunks : c.owner = chunking_methods[mi])

----------------------------------------------------------------------------
(* C3 *)

\* C3: every completed evaluation step of the method at position i is
\* preceded by the completed save of that method's chunks, and while a
\* method is being evaluated its chunks are in the store.
C3_SavedBeforeEvaluated ==
    /\ \A k \in DOMAIN trace :
         IsEval(trace[k]) =>
           /\ trace[k].i \in DOMAIN chunking_methods
           /\ \E s \in 1..(k - 1) :
                trace[s] = Ev("save_chunks_to_vector_db", trace[k].i, 0,
                              chunking_methods[trace[k].i])
    /\ (pc \in EvalSteps =>
          /\ StepsAt("save_chunks_to_vector_db", mi, 0) # {}
          /\ ChunkText(chunking_methods[mi]) \subseteq store[vector_db])

\* The second method's first question has been retrieved.
C3_Witness ==
    /\ pc = "generate_answer"
    /\ mi = 2
    /\ chunking_methods[1] # chunking_methods[2]
    /\ StepsAt("save_chunks_to_vector_db", 2, 0) # {}

----------------------------------------------------------------------------
(* C4 *)

\* The step of line 102 that stores a value (it does not raise).
Aggregated == pc = "aggregate" /\ pc' # "raised"

----------------------------------------------------------------------------
(* C5 *)

\* C5: the division of line 102 never raises (a method with no scores gets
\* no exception), and every stored value lies in [0, 1].
C5_NoDivisionByZero ==
    /\ ~(pc = "raised" /\ exc.kind = "ZeroDivisionError")
    /\ \A m \in DOMAIN results :
         0 <= results[m].num /\ results[m].num <= results[m].den

----------------------------------------------------------------------------
(* C6 *)

\* C6: a failure of retrieve_relevant_chunks, generate_answer or
\* evaluate_answer never ends the run: run_benchmark is not left by an
\* exception raised at one of these steps.
C6_EvaluationFailureRecorded ==
    ~(pc = "raised" /\ exc.at \in EvalSteps)

----------------------------------------------------------------------------
(* C7 *)

\* C7: when the save of a later method fails after the save of an earlier
\* method succeeded, the run is not ended by that failure.
C7_IndexingFailureIsolated ==
    ~(/\ pc = "raised"
      /\ exc.at = "save_chunks_to_vector_db"
      /\ exc.i = 2
      /\ chunking_methods[1] # chunking_methods[2]
      /\ StepsAt("save_chunks_to_vector_db", 1, 0) # {})

----------------------------------------------------------------------------
(* C8 *)

\* C8: a timeout at an evaluation step of the first method's second question
\* ends the task only after retry_limit = 3 attempts of that step (the
\* attempts are the completed calls of the step and the one that raised).
C8_TransientRetried ==
    (/\ pc = "raised"
     /\ exc.kind = "TimeoutError"
     /\ exc.at \in EvalSteps
     /\ exc.i = 1
     /\ exc.j = 2)
    => Cardinality(StepsAt(exc.at, exc.i, exc.j)) + 1 >= 3

----------------------------------------------------------------------------
(* C9 *)

\* The phase of the spec's state machine a completed call belongs to.
StrictPhase(e) ==
    CASE e.op = "chunk_text" -> 1
      [] e.op = "save_chunks_to_vector_db" -> 2
      [] e.op = "generate_questions" -> 3
      [] IsEval(e) -> 4
      [] e.op = "aggregate" -> 5
      [] e.op = "return" -> 6

\* The place of a completed call in the order the code runs them: setup
\* (per method: chunk_text, then save), generate_questions, evaluation (per
\* method: its evaluation steps, then its aggregate), return.
CodeOrder(e) ==
    CASE e.op = "chunk_text" -> 1000 + 10 * e.i + 1
      [] e.op = "save_chunks_to_vector_db" -> 1000 + 10 * e.i + 2
      [] e.op = "generate_questions" -> 2000
      [] IsEval(e) -> 3000 + 10 * e.i + 1
      [] e.op = "aggregate" -> 3000 + 10 * e.i + 2
      [] e.op = "return" -> 4000

\* C9 (as amended): a run never goes back in the order setup,
\* generate_questions, evaluation, return; within setup each method's
\* chunk_text is followed by its own save before the next method's
\* chunk_text; within evaluation each method's steps are followed by its own
\* aggregate before the next method's steps; generate_questions comes after
\* the save of every method, an aggregate after the grading of every
\* question for its method, and return after the aggregate of every method.
C9_PhaseOrder ==
    /\ \A k \in 1..(Len(trace) - 1) :
         CodeOrder(trace[k]) <= CodeOrder(trace[k + 1])
    /\ \A k \in OpsAt("save_chunks_to_vector_db") :
         k > 1 /\ trace[k - 1].op = "chunk_text" /\ trace[k - 1].i = trace[k].i
    /\ (OpsAt("generate_questions") # {} =>
          \A i \in DOMAIN chunking_methods :
            /\ StepsAt("chunk_text", i, 0) # {}
            /\ StepsAt("save_chunks_to_vector_db", i, 0) # {})
    /\ \A k \in OpsAt("aggregate") :
         \A j \in DOMAIN Generated :
           \E e \in StepsAt("evaluate_answer", trace[k].i, j) : e < k
    /\ (OpsAt("return") # {} =>
          \A i \in DOMAIN chunking_methods : StepsAt("aggregate", i, 0) # {})

\* A run over two methods and at least one question has returned.
C9_Witness ==
    /\ pc = "returned"
    /\ Len(chunking_methods) = 2
    /\ Len(Generated) >= 1
    /\ StepsAt("aggregate", 2, 0) # {}

\* C9 (as claimed): a run (here: over a list of distinct methods) never
\* goes back in the order CHUNKING, INDEXING, QUESTION_GEN, EVALUATING,
\* AGGREGATING, DONE: no chunk_text after a save, no evaluation step after
\* an aggregate.
C9_StrictPhases ==
    Distinct(chunking_methods) =>
      \A k \in 1..(Len(trace) - 1) :
        StrictPhase(trace[k]) <= StrictPhase(trace[k + 1])

----------------------------------------------------------------------------
(* C10 *)

\* The evaluation steps completed for strategy m on question text q.
PairSteps(op, m, q) ==
    {k \in OpsAt(op) : chunking_methods[trace[k].i] = m /\ trace[k].arg = q}

====
